---- MODULE Spec2Model ----
(***************************************************************************)
(* klippa: clipping of 2-D geometries against an axis-aligned rectangle.   *)
(*                                                                         *)
(* Numbers.  The program works on f64 coordinates.  The model draws its    *)
(* input coordinates from a small integer grid and holds every coordinate  *)
(* v as the integer v * Scale.  A slope is kept as the pair                *)
(* <<numerator, denominator>> so that the IEEE values +inf, -inf and NaN   *)
(* that the program produces when it divides by zero are represented and   *)
(* compared as f64 compares them.  No input coordinate is -0.0.            *)
(*                                                                         *)
(* Rounding.  A quotient of two small integers is rounded by f64 unless    *)
(* its value is dyadic, and a product with a rounded slope is in general   *)
(* not the f64 nearest to the exact product: 5.0 * (2.0 / 6.0) is          *)
(* 1.6666666666666665.  The model has no rounded values.  Its input        *)
(* segments are therefore those for which every point the program computes *)
(* is exact in f64 (ExactLine): segments parallel to an axis and segments  *)
(* whose slope is a power of two, 1/4, 1/2, 1, 2, 4 and their negatives.   *)
(* On these the slope of B, the product dx_c * slope_b and the sum         *)
(* b.start + (dx_c, dx_c * slope_b) (geom.rs lines 72, 81) are exact, and  *)
(* FMul is defined for such slopes only.  The slopes to the two ends of A  *)
(* (geom.rs lines 73-74) and the perimeter indexes may be rounded by the   *)
(* program; they are only compared, and rounding to nearest keeps the      *)
(* order of two quotients of small integers, and their equality.           *)
(***************************************************************************)
EXTENDS Integers, Sequences, FiniteSets, TLC

VARIABLES rect, seg, ring, pc, ret, groups, queue, output, side, geom

vars == <<rect, seg, ring, pc, ret, groups, queue, output, side, geom>>

(***************************************************************************)
(* Bounds of the model.                                                    *)
(***************************************************************************)
\* The rectangle spans 0..Side (in grid units) on its longest axis.
Side == 4
\* Input coordinates reach Margin grid units beyond 0 and beyond Side.
Margin == 1

RECURSIVE Gcd(_, _)
Gcd(a, b) == IF b = 0 THEN a ELSE Gcd(b, a % b)

RECURSIVE LcmUpTo(_)
LcmUpTo(n) == IF n <= 1 THEN 1 ELSE LET l == LcmUpTo(n - 1) IN (l * n) \div Gcd(l, n)

\* One grid unit, in model units: every extent 1..(Side + 2*Margin) divides it.
Scale == LcmUpTo(Side + 2 * Margin)

GridCoords == { k * Scale : k \in (0 - Margin)..(Side + Margin) }

(***************************************************************************)
(* f64 helpers                                                             *)
(***************************************************************************)
Abs(v) == IF v < 0 THEN 0 - v ELSE v

Sign(v) == IF v > 0 THEN 1 ELSE IF v < 0 THEN 0 - 1 ELSE 0

\* f64::is_sign_positive of a difference of two coordinates: the difference
\* of two equal values is +0.0, whose sign is positive.
is_sign_positive(v) == v >= 0

\* n / d as f64: <<n, d>> with d > 0 is the finite quotient, <<1, 0>> is
\* +inf, <<-1, 0>> is -inf, <<0, 0>> is NaN.  The divisor is never -0.0.
FDiv(n, d) ==
    IF d > 0 THEN <<n, d>>
    ELSE IF d < 0 THEN <<0 - n, 0 - d>>
    ELSE <<Sign(n), 0>>

IsNaN(s) == s = <<0, 0>>

\* s < t on f64: false when either is NaN.
FLt(s, t) ==
    /\ ~IsNaN(s)
    /\ ~IsNaN(t)
    /\ IF s[2] = 0 /\ t[2] = 0 THEN s[1] < t[1]
       ELSE IF s[2] = 0 THEN s[1] < 0
       ELSE IF t[2] = 0 THEN t[1] > 0
       ELSE s[1] * t[2] < t[1] * s[2]

\* f64::min and f64::max: when one argument is NaN the other is returned.
FMin(s, t) == IF IsNaN(s) THEN t ELSE IF IsNaN(t) THEN s ELSE IF FLt(t, s) THEN t ELSE s

FMax(s, t) == IF IsNaN(s) THEN t ELSE IF IsNaN(t) THEN s ELSE IF FLt(s, t) THEN t ELSE s

\* The odd part of the positive integer n.
RECURSIVE OddPart(_)
OddPart(n) == IF n % 2 = 0 THEN OddPart(n \div 2) ELSE n

\* The finite slope s is dyadic: an integer divided by a power of two.  The
\* f64 quotient is then exact.
Dyadic(s) == s[2] > 0 /\ (s[1] = 0 \/ OddPart(s[2] \div Gcd(Abs(s[1]), s[2])) = 1)

\* v * s on f64 for a dyadic slope s and a difference v of two input
\* coordinates: the product is exact.  For any other slope the f64 product
\* is a rounded value, which the model does not have: FMul is not defined
\* there, and no input of the model leads there (see ExactLine).
FMul(v, s) == IF Dyadic(s) THEN (v * s[1]) \div s[2] ELSE CHOOSE x \in {} : TRUE

(***************************************************************************)
(* geo_types values                                                        *)
(***************************************************************************)
Coord(x, y) == [x |-> x, y |-> y]

Line(s, e) == [start |-> s, end |-> e]

dx(l) == l.end.x - l.start.x

dy(l) == l.end.y - l.start.y

slope(l) == FDiv(dy(l), dx(l))

None == << >>

Some(v) == <<v>>

(***************************************************************************)
(* geom.rs: CoordExt                                                       *)
(***************************************************************************)
yx(c) == Coord(c.y, c.x)

manhattan_dist(c, other) == Abs(c.x - other.x) + Abs(c.y - other.y)

\* CoordExt::is_inside is defined after LineExt::intersection, which it calls.

(***************************************************************************)
(* geom.rs: LineExt                                                        *)
(***************************************************************************)
is_vertical(l) == l.start.x = l.end.x

\* is_ortho that takes the vertical lines only. C16 does not hold of it.
is_ortho_vertical_only(l) == l.start.x = l.end.x

is_ortho(l) == l.start.x = l.end.x \/ l.start.y = l.end.y

swap_axes(l) == Line(yx(l.start), yx(l.end))

reverse(l) == Line(l.end, l.start)

\* intersection_vertical without the test that the slope of B lies between
\* the slopes to the two ends of A: B meets the line that carries A, not A.
\* C3 does not hold of it.
intersection_vertical_any_slope(a, b) ==
    LET c == Line(b.start, a.start)
        dx_c == dx(c)
        dx_b == dx(b)
    IN  IF is_sign_positive(dx_c) # is_sign_positive(dx_b) \/ Abs(dx_b) <= Abs(dx_c)
        THEN None
        ELSE Some(Coord(b.start.x + dx_c, b.start.y + FMul(dx_c, slope(b))))

\* intersection_vertical with the two ends of A left out of the slope test
\* (<= and >= where the code has < and >). C5 does not hold of it.
intersection_vertical_open(a, b) ==
    LET c == Line(b.start, a.start)
        dx_c == dx(c)
        dx_b == dx(b)
    IN  IF is_sign_positive(dx_c) # is_sign_positive(dx_b) \/ Abs(dx_b) <= Abs(dx_c)
        THEN None
        ELSE LET d == Line(b.start, a.end)
                 slope_b == slope(b)
                 slope_c == slope(c)
                 slope_d == slope(d)
             IN  IF ~FLt(FMin(slope_c, slope_d), slope_b) \/ ~FLt(slope_b, FMax(slope_c, slope_d))
                 THEN None
                 ELSE Some(Coord(b.start.x + dx_c, b.start.y + FMul(dx_c, slope_b)))

\* intersection for a vertical A (geom.rs lines 56-81).
intersection_vertical(a, b) ==
    LET c == Line(b.start, a.start)
        dx_c == dx(c)
        dx_b == dx(b)
    IN  IF is_sign_positive(dx_c) # is_sign_positive(dx_b) \/ Abs(dx_b) <= Abs(dx_c)
        THEN None
        ELSE LET d == Line(b.start, a.end)
                 slope_b == slope(b)
                 slope_c == slope(c)
                 slope_d == slope(d)
             IN  IF FLt(slope_b, FMin(slope_c, slope_d)) \/ FLt(FMax(slope_c, slope_d), slope_b)
                 THEN None
                 ELSE Some(Coord(b.start.x + dx_c, b.start.y + FMul(dx_c, slope_b)))

\* A is axis-aligned here: the four sides of a Rect always are.
intersection(a, b) ==
    IF ~is_vertical(a)
    THEN LET r == intersection_vertical(swap_axes(a), swap_axes(b))
         IN  IF r = None THEN None ELSE Some(yx(r[1]))
    ELSE intersection_vertical(a, b)

\* ix.intersection(&l) is Some, for ix = Line::new((p.x, p.y), (p.x, +inf))
\* (geom.rs line 22): ix is vertical, so the call runs lines 56-81 with
\* a.start = p and a.end = (p.x, +inf).  The line D from b.start to a.end has
\* dy = +inf and dx = dx_c, so its slope is +inf when dx_c is positive or
\* +0.0 and -inf when dx_c is negative.
ray_hit(p, l) ==
    LET dx_c == p.x - l.start.x
        dx_b == dx(l)
    IN  IF is_sign_positive(dx_c) # is_sign_positive(dx_b) \/ Abs(dx_b) <= Abs(dx_c)
        THEN FALSE
        ELSE LET slope_b == slope(l)
                 slope_c == FDiv(p.y - l.start.y, dx_c)
                 slope_d == IF dx_c >= 0 THEN <<1, 0>> ELSE <<0 - 1, 0>>
             IN  ~(FLt(slope_b, FMin(slope_c, slope_d)) \/ FLt(FMax(slope_c, slope_d), slope_b))

\* CoordExt::is_inside (geom.rs lines 21-24): the number of edges of ls that
\* the ray meets is odd.
is_inside(p, ls) ==
    Cardinality({ k \in 1..(IF Len(ls) > 1 THEN Len(ls) - 1 ELSE 0) :
                    ray_hit(p, Line(ls[k], ls[k + 1])) }) % 2 = 1

(***************************************************************************)
(* rect.rs: Rect                                                           *)
(***************************************************************************)
Rect_new(x0, y0, x1, y1) ==
    [x0 |-> x0, y0 |-> y0, x1 |-> x1, y1 |-> y1,
     lines |-> << Line(Coord(x0, y0), Coord(x1, y0)),
                  Line(Coord(x1, y0), Coord(x1, y1)),
                  Line(Coord(x1, y1), Coord(x0, y1)),
                  Line(Coord(x0, y1), Coord(x0, y0)) >>]

corner_points(r) == [i \in 1..4 |-> r.lines[i].start]

\* contains_coord with the left and bottom sides left out. C1 does not hold
\* of it.
contains_coord_half_open(r, c) == r.x0 < c.x /\ c.x <= r.x1 /\ r.y0 < c.y /\ c.y <= r.y1

contains_coord(r, c) == r.x0 <= c.x /\ c.x <= r.x1 /\ r.y0 <= c.y /\ c.y <= r.y1

contains_segment(r, s) == contains_coord(r, s.start) /\ contains_coord(r, s.end)

is_crossing(r, s) == ~contains_coord(r, s.start) /\ ~contains_coord(r, s.end)

is_corner(r, p) == \E i \in 1..4 : p = corner_points(r)[i]

\* The distinct points where the sides of r, taken in order, meet s
\* (rect.rs lines 74-84: filter_map, then a fold that drops repeats).
RECURSIVE unique_isects(_, _, _, _)
unique_isects(r, s, i, acc) ==
    IF i > 4 THEN acc
    ELSE LET p == intersection(r.lines[i], s)
         IN  unique_isects(r, s, i + 1,
                 IF p = None \/ (\E k \in 1..Len(acc) : acc[k] = p[1])
                 THEN acc
                 ELSE Append(acc, p[1]))

clip_point(r, p) == IF contains_coord(r, p) THEN Some(p) ELSE None

\* clip_segment without the special case of a crossing that meets the
\* rectangle in a corner only (rect.rs lines 104-110). C4 does not hold of it.
clip_segment_corner_kept(r, s) ==
    IF contains_segment(r, s) THEN Some(s)
    ELSE LET isects == unique_isects(r, s, 1, << >>)
         IN  IF Len(isects) >= 2
             THEN LET p1 == isects[1]
                      p2 == isects[2]
                  IN  IF manhattan_dist(s.start, p1) <= manhattan_dist(s.start, p2)
                      THEN Some(Line(p1, p2))
                      ELSE Some(Line(p2, p1))
             ELSE IF Len(isects) = 1
             THEN LET p1 == isects[1]
                  IN  IF contains_coord(r, s.start)
                      THEN Some(Line(s.start, p1))
                      ELSE Some(Line(p1, s.end))
             ELSE None

\* clip_segment that keeps two intersection points in the order of the
\* sides that gave them (rect.rs lines 89-102 without the comparison of
\* distances). C6 does not hold of it.
clip_segment_side_order(r, s) ==
    IF contains_segment(r, s) THEN Some(s)
    ELSE LET isects == unique_isects(r, s, 1, << >>)
         IN  IF Len(isects) >= 2
             THEN Some(Line(isects[1], isects[2]))
             ELSE IF Len(isects) = 1
             THEN LET p1 == isects[1]
                  IN  IF is_crossing(r, s) /\ is_corner(r, p1)
                      THEN None
                      ELSE IF contains_coord(r, s.start)
                           THEN Some(Line(s.start, p1))
                           ELSE Some(Line(p1, s.end))
             ELSE None

clip_segment(r, s) ==
    IF contains_segment(r, s) THEN Some(s)
    ELSE LET isects == unique_isects(r, s, 1, << >>)
         IN  IF Len(isects) >= 2
             THEN LET p1 == isects[1]
                      p2 == isects[2]
                  IN  IF manhattan_dist(s.start, p1) <= manhattan_dist(s.start, p2)
                      THEN Some(Line(p1, p2))
                      ELSE Some(Line(p2, p1))
             ELSE IF Len(isects) = 1
             THEN LET p1 == isects[1]
                  IN  IF is_crossing(r, s) /\ is_corner(r, p1)
                      THEN None
                      ELSE IF contains_coord(r, s.start)
                           THEN Some(Line(s.start, p1))
                           ELSE Some(Line(p1, s.end))
             ELSE None

\* segments.into_iter().filter_map(clip_segment).collect() (rect.rs lines 128-131)
RECURSIVE clip_each(_, _)
clip_each(r, segments) ==
    IF segments = << >> THEN << >>
    ELSE clip_segment(r, Head(segments)) \o clip_each(r, Tail(segments))

\* split_offset that never finds a split point. C19 does not hold of it.
split_offset_none(segments) == 0

\* The first split point (rect.rs lines 140-147).
split_offset(segments) ==
    LET seg_len == Len(segments)
        brk == { i \in 0..(seg_len - 1) :
                   segments[i + 1].end # segments[((i + 1) % seg_len) + 1].start }
    IN  IF brk = {} THEN 0
        ELSE ((CHOOSE i \in brk : \A k \in brk : i <= k) + 1) % seg_len

\* group_fold that never starts another group. C18 does not hold of it.
group_fold_one_group(acc, rest) == IF rest = << >> THEN << >> ELSE << rest >>

\* The fold that groups connected segments (rect.rs lines 155-171).
RECURSIVE group_fold(_, _)
group_fold(acc, rest) ==
    IF rest = << >> THEN acc
    ELSE LET s == Head(rest)
         IN  IF acc = << >> THEN group_fold(<< <<s>> >>, Tail(rest))
             ELSE LET segs == acc[Len(acc)]
                      last == segs[Len(segs)]
                  IN  IF last.end = s.start
                      THEN group_fold([acc EXCEPT ![Len(acc)] = Append(segs, s)], Tail(rest))
                      ELSE group_fold(Append(acc, <<s>>), Tail(rest))

\* A let that computes its value e once and hands it to F.
Let(e, F(_)) == CHOOSE y \in { F(v) : v \in {e} } : TRUE

\* clip_segments without cycle(): the segments before the split point are
\* lost. C20 does not hold of it.
clip_segments_no_cycle(r, segments) ==
    Let(clip_each(r, segments), LAMBDA clipped :
        IF clipped = << >> THEN << >>
        ELSE Let(split_offset(clipped), LAMBDA offset :
                 group_fold(<< >>, [k \in 1..(Len(clipped) - offset) |-> clipped[k + offset]])))

\* clipped: the clipped segments; offset: the first split point; the fold
\* runs over cycle().skip(offset).take(seg_len).
clip_segments(r, segments) ==
    Let(clip_each(r, segments), LAMBDA clipped :
        IF clipped = << >> THEN << >>
        ELSE Let(split_offset(clipped), LAMBDA offset :
                 group_fold(<< >>, [k \in 1..Len(clipped) |->
                                       clipped[((k - 1 + offset) % Len(clipped)) + 1]])))

\* The index 1.0 in model units: indexes are held as multiples of 1/PUnit.
PUnit(r) == (r.x1 - r.x0) * (r.y1 - r.y0)

\* (num / den) as a perimeter fraction; den is a signed width or height of r.
PFrac(r, num, den) == Sign(den) * num * (PUnit(r) \div Abs(den))

\* perimeter_index that measures the third side from its far end, as it
\* does the first. C14 does not hold of it.
perimeter_index_third_side_forward(r, p) ==
    LET corners == corner_points(r)
    IN  IF p.y = corners[1].y
        THEN PFrac(r, p.x - corners[1].x, corners[2].x - corners[1].x)
        ELSE IF p.x = corners[2].x
        THEN PUnit(r) + PFrac(r, p.y - corners[2].y, corners[3].y - corners[2].y)
        ELSE IF p.y = corners[3].y
        THEN 2 * PUnit(r) + PFrac(r, p.x - corners[4].x, corners[3].x - corners[4].x)
        ELSE IF p.x = corners[4].x
        THEN 3 * PUnit(r) + PFrac(r, p.y - corners[4].y, corners[1].y - corners[4].y)
        ELSE 4 * PUnit(r)

perimeter_index(r, p) ==
    LET corners == corner_points(r)
    IN  IF p.y = corners[1].y
        THEN PFrac(r, p.x - corners[1].x, corners[2].x - corners[1].x)
        ELSE IF p.x = corners[2].x
        THEN PUnit(r) + PFrac(r, p.y - corners[2].y, corners[3].y - corners[2].y)
        ELSE IF p.y = corners[3].y
        THEN 2 * PUnit(r) + PFrac(r, p.x - corners[3].x, corners[4].x - corners[3].x)
        ELSE IF p.x = corners[4].x
        THEN 3 * PUnit(r) + PFrac(r, p.y - corners[4].y, corners[1].y - corners[4].y)
        ELSE 4 * PUnit(r)

\* `f as usize`: truncation toward zero, saturating at 0.
as_usize(r, f) == IF f < 0 THEN 0 ELSE f \div PUnit(r)

\* corner_nodes_between without the wrap-around of b. C21 (as amended) does
\* not hold of it.
corner_nodes_between_no_wrap(r, a, b) ==
    LET i == as_usize(r, a)
        j == as_usize(r, b)
    IN  [k \in 1..(IF j > i THEN j - i ELSE 0) |-> r.lines[((i + k - 1) % 4) + 1].end]

corner_nodes_between(r, a, b) ==
    LET b2 == IF b < a THEN b + 4 * PUnit(r) ELSE b
        i == as_usize(r, a)
        j == as_usize(r, b2)
    IN  [k \in 1..(IF j > i THEN j - i ELSE 0) |-> r.lines[((i + k - 1) % 4) + 1].end]

(***************************************************************************)
(* util.rs                                                                 *)
(***************************************************************************)
segments_to_linestring(segments) ==
    IF segments = << >> THEN << >>
    ELSE LET n == Len(segments)
         IN  [k \in 1..(n + 1) |-> IF k <= n THEN segments[k].start ELSE segments[n].end]

\* LineString::lines: the segments between consecutive coordinates.
lines(ls) == [k \in 1..(IF Len(ls) > 1 THEN Len(ls) - 1 ELSE 0) |-> Line(ls[k], ls[k + 1])]

\* LineString::is_closed: first coordinate equals last coordinate.
is_closed(ls) == ls = << >> \/ ls[1] = ls[Len(ls)]

\* The forward distance, walking the perimeter in index order and wrapping
\* at 4.0, from index a to index b.
forward_distance(r, a, b) == (b - a) % (4 * PUnit(r))

\* Rect::is_index_closer(p_tail, p_idx, p_a): walking forward from p_tail,
\* p_idx is reached before p_a.
is_index_closer(r, p_tail, p_idx, p_a) ==
    forward_distance(r, p_tail, p_idx) < forward_distance(r, p_tail, p_a)

(***************************************************************************)
(* lib.rs: ClipRect                                                        *)
(***************************************************************************)
\* One entry of the work queue of clip_polygon_ring.
Entry_q(p, ls) == [p |-> p, ls |-> ls]

\* groups -> (perimeter_index(g[0]), g) (lib.rs lines 33-36)
tagged_fragments(r, gs) ==
    [k \in 1..Len(gs) |->
        LET ls == segments_to_linestring(gs[k])
        IN  Entry_q(perimeter_index(r, ls[1]), ls)]

\* The sort with a.0.partial_cmp(&b.0): lowest index first. C23 does not
\* hold of it.
RECURSIVE sort_asc(_, _)
sort_asc(sorted, rest) ==
    IF rest = << >> THEN sorted
    ELSE LET e == Head(rest)
             n == Cardinality({ k \in 1..Len(sorted) : sorted[k].p <= e.p })
         IN  sort_asc(SubSeq(sorted, 1, n) \o <<e>> \o SubSeq(sorted, n + 1, Len(sorted)),
                      Tail(rest))

\* Vec::sort_by with |a, b| b.0.partial_cmp(&a.0): a stable sort, highest
\* index first.
RECURSIVE sort_desc(_, _)
sort_desc(sorted, rest) ==
    IF rest = << >> THEN sorted
    ELSE LET e == Head(rest)
             n == Cardinality({ k \in 1..Len(sorted) : sorted[k].p >= e.p })
         IN  sort_desc(SubSeq(sorted, 1, n) \o <<e>> \o SubSeq(sorted, n + 1, Len(sorted)),
                       Tail(rest))

\* The search without rev(): the match nearest the front of q. C24 does not
\* hold of it.
find_next_from_front(r, q, p_tail, p_a) ==
    LET hits == { k \in 1..Len(q) : is_index_closer(r, p_tail, q[k].p, p_a) }
    IN  IF hits = {} THEN 0 ELSE CHOOSE k \in hits : \A h \in hits : k <= h

\* queue.iter().enumerate().rev().find(is_index_closer(p_tail, p_idx, p_a)):
\* the position of the match nearest the end of q, or 0 when there is none
\* (lib.rs lines 61-66).
find_next(r, q, p_tail, p_a) ==
    LET hits == { k \in 1..Len(q) : is_index_closer(r, p_tail, q[k].p, p_a) }
    IN  IF hits = {} THEN 0 ELSE CHOOSE k \in hits : \A h \in hits : h <= k

\* Vec::remove
remove_at(q, k) == SubSeq(q, 1, k - 1) \o SubSeq(q, k + 1, Len(q))

\* ClipRect::clip for a Polygon without holes, given the rings that
\* clip_polygon_ring returned for its exterior (lib.rs lines 96-126).
clip_polygon(rings) == [k \in 1..Len(rings) |-> [exterior |-> rings[k], interiors |-> << >>]]

clip_Polygon(rings) ==
    IF clip_polygon(rings) = << >> THEN None
    ELSE Some([MultiPolygon |-> clip_polygon(rings)])

\* ClipRect::clip_linestring (lib.rs lines 20-26)
clip_linestring(r, g) ==
    Let(clip_segments(r, lines(g)),
        LAMBDA gs : [k \in 1..Len(gs) |-> segments_to_linestring(gs[k])])

\* The connect loop of clip_polygon_ring (lib.rs lines 44-91), run until the
\* queue is empty.
RECURSIVE connect_loop(_, _, _)
connect_loop(r, q, out) ==
    IF q = << >> THEN out
    ELSE LET p_a == q[Len(q)].p
             a == q[Len(q)].ls
             rest == SubSeq(q, 1, Len(q) - 1)
         IN  IF is_closed(a) THEN connect_loop(r, rest, Append(out, a))
             ELSE LET p_tail == perimeter_index(r, a[Len(a)])
                      next == find_next(r, rest, p_tail, p_a)
                  IN  IF next # 0
                      THEN LET p_b == rest[next].p
                               b == rest[next].ls
                               corners == corner_nodes_between(r, p_tail, p_b)
                           IN  connect_loop(r, Append(remove_at(rest, next),
                                                      Entry_q(p_a, a \o corners \o b)), out)
                      ELSE LET corners == corner_nodes_between(r, p_tail, p_a)
                           IN  connect_loop(r, Append(rest, Entry_q(p_a, (a \o corners) \o <<a[1]>>)),
                                            out)

\* ClipRect::clip_polygon_ring (lib.rs lines 29-94)
clip_polygon_ring(r, g) ==
    Let(clip_segments(r, lines(g)),
        LAMBDA gs : Let(sort_desc(<< >>, tagged_fragments(r, gs)),
                        LAMBDA q : connect_loop(r, q, << >>)))

\* Iterator::flatten over a sequence of sequences.
RECURSIVE flatten(_)
flatten(ss) == IF ss = << >> THEN << >> ELSE Head(ss) \o flatten(Tail(ss))

\* filter_map(clip_point) over the points of a MultiPoint (lib.rs lines 127-129)
RECURSIVE clip_points(_, _)
clip_points(r, ps) ==
    IF ps = << >> THEN << >> ELSE clip_point(r, Head(ps)) \o clip_points(r, Tail(ps))

\* ClipRect::clip (lib.rs lines 112-153). A geometry is a record with one
\* field, named after its variant; a polygon is [exterior, interiors].
clip(r, g) ==
    IF "Point" \in DOMAIN g
    THEN LET p == clip_point(r, g.Point)
         IN  IF p = None THEN None ELSE Some([Point |-> p[1]])
    ELSE IF "Line" \in DOMAIN g
    THEN LET l == clip_segment(r, g.Line)
         IN  IF l = None THEN None ELSE Some([Line |-> l[1]])
    ELSE IF "LineString" \in DOMAIN g
    THEN Some([MultiLineString |-> clip_linestring(r, g.LineString)])
    ELSE IF "Polygon" \in DOMAIN g
    THEN Let(clip_polygon(clip_polygon_ring(r, g.Polygon.exterior)),
             LAMBDA polys : IF polys = << >> THEN None ELSE Some([MultiPolygon |-> polys]))
    ELSE IF "MultiPoint" \in DOMAIN g
    THEN Some([MultiPoint |-> clip_points(r, g.MultiPoint)])
    ELSE IF "MultiLineString" \in DOMAIN g
    THEN Some([MultiLineString |->
                  flatten([k \in 1..Len(g.MultiLineString) |->
                              clip_linestring(r, g.MultiLineString[k])])])
    ELSE IF "MultiPolygon" \in DOMAIN g
    THEN Let(flatten([k \in 1..Len(g.MultiPolygon) |->
                         clip_polygon(clip_polygon_ring(r, g.MultiPolygon[k].exterior))]),
             LAMBDA polys : IF polys = << >> THEN None ELSE Some([MultiPolygon |-> polys]))
    ELSE None

(***************************************************************************)
(* Geometry the claims are stated against.  None of this is program code:  *)
(* it says what the set (segment /\ closed rectangle) is.                  *)
(***************************************************************************)
InClosedRect(r, p) == r.x0 <= p.x /\ p.x <= r.x1 /\ r.y0 <= p.y /\ p.y <= r.y1

InOpenRect(r, p) == r.x0 < p.x /\ p.x < r.x1 /\ r.y0 < p.y /\ p.y < r.y1

OnBoundary(r, p) == InClosedRect(r, p) /\ ~InOpenRect(r, p)

IsRectCorner(r, p) == p.x \in {r.x0, r.x1} /\ p.y \in {r.y0, r.y1}

Between(v, a, b) == (a <= v /\ v <= b) \/ (b <= v /\ v <= a)

\* p lies on the closed segment s.
OnSegment(s, p) ==
    /\ (p.x - s.start.x) * (s.end.y - s.start.y) = (p.y - s.start.y) * (s.end.x - s.start.x)
    /\ Between(p.x, s.start.x, s.end.x)
    /\ Between(p.y, s.start.y, s.end.y)

\* Where the line through s meets the four lines that carry the sides of r.
LineMeetsSides(r, s) ==
    LET ex == s.end.x - s.start.x
        ey == s.end.y - s.start.y
    IN  { Coord(cx, s.start.y + ((cx - s.start.x) * ey) \div ex) :
              cx \in (IF ex = 0 THEN {} ELSE {r.x0, r.x1}) }
        \cup
        { Coord(s.start.x + ((cy - s.start.y) * ex) \div ey, cy) :
              cy \in (IF ey = 0 THEN {} ELSE {r.y0, r.y1}) }

\* The end points of (s /\ closed r) are among these points.
Common(r, s) ==
    { p \in {s.start, s.end} \cup LineMeetsSides(r, s) : OnSegment(s, p) /\ InClosedRect(r, p) }

Dist1(p, q) == (IF p.x < q.x THEN q.x - p.x ELSE p.x - q.x) + (IF p.y < q.y THEN q.y - p.y ELSE p.y - q.y)

\* The point of (s /\ closed r) nearest to s.start, and the farthest one.
Entry(r, s) == CHOOSE p \in Common(r, s) : \A q \in Common(r, s) : Dist1(s.start, p) <= Dist1(s.start, q)

Exit(r, s) == CHOOSE p \in Common(r, s) : \A q \in Common(r, s) : Dist1(s.start, p) >= Dist1(s.start, q)

\* (s /\ closed r) has positive length.
ProperOverlap(r, s) == Common(r, s) # {} /\ Entry(r, s) # Exit(r, s)

\* s has a point strictly inside r: the middle of the overlap is one, or none is.
MeetsInterior(r, s) ==
    /\ ProperOverlap(r, s)
    /\ LET e == Entry(r, s)
           x == Exit(r, s)
       IN  /\ 2 * r.x0 < e.x + x.x /\ e.x + x.x < 2 * r.x1
           /\ 2 * r.y0 < e.y + x.y /\ e.y + x.y < 2 * r.y1


\* Twice the signed area of the triangle a, b, c: positive when a, b, c turn
\* counter-clockwise (y pointing up).
Orient(a, b, c) == (b.x - a.x) * (c.y - a.y) - (b.y - a.y) * (c.x - a.x)

\* The closed segments e and f have a point in common.
SegmentsMeet(e, f) ==
    LET o1 == Sign(Orient(e.start, e.end, f.start))
        o2 == Sign(Orient(e.start, e.end, f.end))
        o3 == Sign(Orient(f.start, f.end, e.start))
        o4 == Sign(Orient(f.start, f.end, e.end))
    IN  \/ (o1 # o2 /\ o3 # o4)
        \/ OnSegment(e, f.start) \/ OnSegment(e, f.end)
        \/ OnSegment(f, e.start) \/ OnSegment(f, e.end)

\* The edges of the closed coordinate sequence ls.
Edges(ls) == [k \in 1..(Len(ls) - 1) |-> Line(ls[k], ls[k + 1])]

\* ls is a simple closed curve: edges that are not neighbours are disjoint
\* and neighbours share their common vertex only.
SimpleRing(ls) ==
    LET n == Len(ls) - 1
        e == Edges(ls)
    IN  /\ n >= 3
        /\ ls[1] = ls[n + 1]
        /\ \A i \in 1..n : e[i].start # e[i].end
        /\ \A i \in 1..n : \A j \in (i + 1)..n :
              IF j = i + 1 \/ (i = 1 /\ j = n)
              THEN LET u == IF j = i + 1 THEN e[i] ELSE e[j]
                       v == IF j = i + 1 THEN e[j] ELSE e[i]
                   IN  ~OnSegment(u, v.end) /\ ~OnSegment(v, u.start)
              ELSE ~SegmentsMeet(e[i], e[j])

OnRing(ls, p) == \E k \in 1..(Len(ls) - 1) : OnSegment(Edges(ls)[k], p)

\* The edge e crosses the horizontal ray from p towards +x.
CrossesRay(e, p) ==
    /\ (e.start.y > p.y) # (e.end.y > p.y)
    /\ LET ey == e.end.y - e.start.y
           lhs == (p.x - e.start.x) * ey
           rhs == (p.y - e.start.y) * (e.end.x - e.start.x)
       IN  IF ey > 0 THEN lhs < rhs ELSE lhs > rhs

\* p is enclosed by the ring ls (even-odd rule), p not on the ring.
InsideRing(ls, p) ==
    /\ ~OnRing(ls, p)
    /\ Cardinality({ k \in 1..(Len(ls) - 1) : CrossesRay(Edges(ls)[k], p) }) % 2 = 1

OutsideRing(ls, p) == ~OnRing(ls, p) /\ ~InsideRing(ls, p)

\* Twice the signed area of the ring: positive when it runs counter-clockwise.
SignedArea2(ls) ==
    LET RECURSIVE Sum(_)
        Sum(k) == IF k = 0 THEN 0
                  ELSE Sum(k - 1) + ((ls[k].x \div Scale) * (ls[k + 1].y \div Scale)
                                     - (ls[k + 1].x \div Scale) * (ls[k].y \div Scale))
    IN  Sum(Len(ls) - 1)

RectCorners(r) == { Coord(x, y) : x \in {r.x0, r.x1}, y \in {r.y0, r.y1} }

\* ls is the boundary of r: its four corners in order round it, closed.
IsRectBoundary(r, ls) ==
    /\ Len(ls) = 5
    /\ ls[1] = ls[5]
    /\ { ls[k] : k \in 1..4 } = RectCorners(r)
    /\ \A k \in 1..4 : ls[k].x = ls[k + 1].x \/ ls[k].y = ls[k + 1].y

Points(ls) == { ls[k] : k \in 1..Len(ls) }

(***************************************************************************)
(* Inputs                                                                  *)
(***************************************************************************)
GridPoints == { Coord(x, y) : x \in GridCoords, y \in GridCoords }

\* The segment l is parallel to an axis, or |dx| and |dy| have the same odd
\* part: dy / dx and dx / dy are powers of two, so every point the program
\* computes on l is exact in f64.
ExactLine(l) ==
    \/ dx(l) = 0
    \/ dy(l) = 0
    \/ OddPart(Abs(dx(l))) = OddPart(Abs(dy(l)))

\* Every segment of the chain ls is an ExactLine.
ExactChain(ls) == \A k \in 1..(Len(ls) - 1) : ExactLine(Line(ls[k], ls[k + 1]))

\* The input segments.
GridLines == { l \in { Line(s, e) : s \in GridPoints, e \in GridPoints } : ExactLine(l) }

\* Rectangles with x0 < x1 and y0 < y1: a square one and one that is not.
ProperRects ==
    { Rect_new(0, 0, Side * Scale, Side * Scale),
      Rect_new(Scale, Scale, Side * Scale, (Side - 1) * Scale) }

\* Rectangles with x0 = x1 or y0 = y1, which Rect::new accepts as well.
FlatRects ==
    { Rect_new(0, 0, 0, Side * Scale),
      Rect_new(0, Scale, Side * Scale, Scale) }

Rects == ProperRects \cup FlatRects

NoRing == << >>

InitSegment ==
    /\ rect \in Rects
    /\ seg \in { Some(l) : l \in GridLines }
    /\ ring = NoRing
    /\ pc = "start"
    /\ ret = None
    /\ groups = << >>
    /\ queue = << >>
    /\ output = << >>
    /\ side = None
    /\ geom = None

\* Rect::clip_segment applied to the input segment.
ClipSegment ==
    /\ pc = "start"
    /\ seg # None
    /\ ret' = clip_segment(rect, seg[1])
    /\ pc' = "done"
    /\ UNCHANGED <<rect, seg, ring, groups, queue, output, side, geom>>

\* Where the chains of ClipChain end: the points on the border of the grid.
ChainEnds ==
    { p \in GridPoints : \/ p.x \in {(0 - Margin) * Scale, (Side + Margin) * Scale}
                         \/ p.y \in {(0 - Margin) * Scale, (Side + Margin) * Scale} }

\* Rect::clip_segments (rect.rs lines 126-174) on the lines of the chain
\* made of the input segment and one more segment.
ClipChain ==
    /\ pc = "start"
    /\ seg # None
    /\ \E q \in { c \in ChainEnds : ExactLine(Line(seg[1].end, c)) } :
          /\ ring' = <<seg[1].start, seg[1].end, q>>
          /\ groups' = clip_segments(rect, lines(ring'))
    /\ pc' = "chain"
    /\ UNCHANGED <<rect, seg, ret, queue, output, side, geom>>

\* Rect::perimeter_index of the two end points of the input segment, for a
\* rectangle of positive width and height (the quotients of perimeter_index
\* are NaN or infinite otherwise).
PerimeterIndex ==
    /\ pc = "start"
    /\ seg # None
    /\ rect.x0 < rect.x1 /\ rect.y0 < rect.y1
    /\ ret' = <<perimeter_index(rect, seg[1].start), perimeter_index(rect, seg[1].end)>>
    /\ pc' = "indexed"
    /\ UNCHANGED <<rect, seg, ring, groups, queue, output, side, geom>>

\* Rect::corner_nodes_between of the two indexes, as clip_polygon_ring calls
\* it with the index of a tail and the index of a start (lib.rs lines 57,
\* 71, 85).
CornerNodesBetween ==
    /\ pc = "indexed"
    /\ output' = corner_nodes_between(rect, ret[1], ret[2])
    /\ pc' = "corners"
    /\ UNCHANGED <<rect, seg, ring, ret, groups, queue, side, geom>>

NextSegment == ClipSegment \/ ClipChain \/ PerimeterIndex \/ CornerNodesBetween

SpecSegment == InitSegment /\ [][NextSegment]_vars

(***************************************************************************)
(* SpecRing: ClipRect::clip of a Polygon whose exterior is the input ring, *)
(* step by step through clip_polygon_ring.                                 *)
(***************************************************************************)
RingRects == { Rect_new(0, 0, Side * Scale, Side * Scale) }

\* Ring vertices: outside, on the boundary, and inside the rectangle.
RingCoords == { (0 - Margin) * Scale, 0, (Side \div 2) * Scale, Side * Scale, (Side + Margin) * Scale }

RingPoints == { Coord(x, y) : x \in RingCoords, y \in RingCoords }

Triangles ==
    { <<a, b, c, a>> : a \in RingPoints, b \in RingPoints, c \in RingPoints }

\* Four-cornered rings, simple or self-crossing, on a coarser set of points.
QuadCoords == { (0 - Margin) * Scale, (Side \div 2) * Scale, (Side + Margin) * Scale }

QuadPoints == { Coord(x, y) : x \in QuadCoords, y \in QuadCoords }

Quads ==
    { <<a, b, c, d, a>> : a \in QuadPoints, b \in QuadPoints, c \in QuadPoints, d \in QuadPoints }

\* Input rings: closed, with no edge of length zero.
Rings ==
    { ls \in Triangles \cup Quads : /\ \A k \in 1..(Len(ls) - 1) : ls[k] # ls[k + 1]
                                     /\ ExactChain(ls) }

InitRing ==
    /\ rect \in RingRects
    /\ ring \in Rings
    /\ seg = None
    /\ pc = "start"
    /\ ret = None
    /\ groups = << >>
    /\ queue = << >>
    /\ output = << >>
    /\ side = None
    /\ geom = None

\* clip_polygon_ring, lib.rs line 32: Rect::clip_segments on the ring's edges.
ClipSegments ==
    /\ pc = "start"
    /\ groups' = clip_segments(rect, lines(ring))
    /\ pc' = "grouped"
    /\ UNCHANGED <<rect, seg, ring, ret, queue, output, side, geom>>

\* lib.rs lines 33-42: tag the fragments, sort the queue, empty output.
BuildQueue ==
    /\ pc = "grouped"
    /\ queue' = sort_desc(<< >>, tagged_fragments(rect, groups))
    /\ output' = << >>
    /\ pc' = "loop"
    /\ UNCHANGED <<rect, seg, ring, ret, groups, side, geom>>

\* One iteration of the connect loop that pops a closed ring (lines 49-54).
EmitClosed ==
    /\ pc = "loop"
    /\ queue # << >>
    /\ LET a == queue[Len(queue)].ls
       IN  /\ is_closed(a)
           /\ output' = Append(output, a)
           /\ queue' = SubSeq(queue, 1, Len(queue) - 1)
    /\ UNCHANGED <<rect, seg, ring, pc, ret, groups, side, geom>>

\* JoinNext without a.0.extend(b): the fragment removed from the queue is
\* lost. C28 does not hold of it.
JoinNext_loses_b ==
    /\ pc = "loop"
    /\ queue # << >>
    /\ LET p_a == queue[Len(queue)].p
           a == queue[Len(queue)].ls
           rest == SubSeq(queue, 1, Len(queue) - 1)
           p_tail == perimeter_index(rect, a[Len(a)])
           next == find_next(rect, rest, p_tail, p_a)
       IN  /\ ~is_closed(a)
           /\ next # 0
           /\ LET p_b == rest[next].p
                  corners == corner_nodes_between(rect, p_tail, p_b)
              IN  queue' = Append(remove_at(rest, next), Entry_q(p_a, a \o corners))
    /\ UNCHANGED <<rect, seg, ring, pc, ret, groups, output, side, geom>>

\* One iteration that joins the popped fragment with another (lines 56-80).
JoinNext ==
    /\ pc = "loop"
    /\ queue # << >>
    /\ LET p_a == queue[Len(queue)].p
           a == queue[Len(queue)].ls
           rest == SubSeq(queue, 1, Len(queue) - 1)
           p_tail == perimeter_index(rect, a[Len(a)])
           next == find_next(rect, rest, p_tail, p_a)
       IN  /\ ~is_closed(a)
           /\ next # 0
           /\ LET p_b == rest[next].p
                  b == rest[next].ls
                  corners == corner_nodes_between(rect, p_tail, p_b)
              IN  queue' = Append(remove_at(rest, next), Entry_q(p_a, a \o corners \o b))
    /\ UNCHANGED <<rect, seg, ring, pc, ret, groups, output, side, geom>>

\* CloseSelf that pushes the popped fragment back as it was, neither corners
\* nor first coordinate added. C22 does not hold of it.
CloseSelf_unclosed ==
    /\ pc = "loop"
    /\ queue # << >>
    /\ LET p_a == queue[Len(queue)].p
           a == queue[Len(queue)].ls
           rest == SubSeq(queue, 1, Len(queue) - 1)
           p_tail == perimeter_index(rect, a[Len(a)])
       IN  /\ ~is_closed(a)
           /\ find_next(rect, rest, p_tail, p_a) = 0
           /\ queue' = Append(rest, Entry_q(p_a, a))
    /\ UNCHANGED <<rect, seg, ring, pc, ret, groups, output, side, geom>>

\* CloseSelf that closes the fragment with its first coordinate only, no
\* corners in between. C25 does not hold of it.
CloseSelf_no_corners ==
    /\ pc = "loop"
    /\ queue # << >>
    /\ LET p_a == queue[Len(queue)].p
           a == queue[Len(queue)].ls
           rest == SubSeq(queue, 1, Len(queue) - 1)
           p_tail == perimeter_index(rect, a[Len(a)])
       IN  /\ ~is_closed(a)
           /\ find_next(rect, rest, p_tail, p_a) = 0
           /\ queue' = Append(rest, Entry_q(p_a, a \o <<a[1]>>))
    /\ UNCHANGED <<rect, seg, ring, pc, ret, groups, output, side, geom>>

\* One iteration that closes the popped fragment on itself (lines 81-90).
CloseSelf ==
    /\ pc = "loop"
    /\ queue # << >>
    /\ LET p_a == queue[Len(queue)].p
           a == queue[Len(queue)].ls
           rest == SubSeq(queue, 1, Len(queue) - 1)
           p_tail == perimeter_index(rect, a[Len(a)])
           corners == corner_nodes_between(rect, p_tail, p_a)
       IN  /\ ~is_closed(a)
           /\ find_next(rect, rest, p_tail, p_a) = 0
           /\ queue' = Append(rest, Entry_q(p_a, (a \o corners) \o <<a[1]>>))
    /\ UNCHANGED <<rect, seg, ring, pc, ret, groups, output, side, geom>>

\* The queue is empty: clip_polygon_ring returns output, and clip returns
\* the polygons made of it, or None (lib.rs lines 93, 96-126).
Return ==
    /\ pc = "loop"
    /\ queue = << >>
    /\ ret' = clip_Polygon(output)
    /\ pc' = "done"
    /\ UNCHANGED <<rect, seg, ring, groups, queue, output, side, geom>>

NextRing == ClipSegments \/ BuildQueue \/ EmitClosed \/ JoinNext \/ CloseSelf \/ Return

SpecRing == InitRing /\ [][NextRing]_vars

\* clip_polygon_ring is sequential code: while the queue is not empty the
\* loop takes its next iteration.
SpecRingFair == SpecRing /\ WF_vars(EmitClosed \/ JoinNext \/ CloseSelf)

(***************************************************************************)
(* SpecIntersection: LineExt::intersection of a line A (side) and a        *)
(* segment B (seg).                                                        *)
(***************************************************************************)
\* End points of A: the corners of the square of the given side.
SidePoints == { Coord(x, y) : x \in {0, Side * Scale}, y \in {0, Side * Scale} }

\* A: horizontal, vertical, of length zero, or diagonal.
Sides == { Line(p, q) : p \in SidePoints, q \in SidePoints }

InitIntersection ==
    /\ side \in { Some(l) : l \in Sides }
    /\ seg \in { Some(l) : l \in GridLines }
    /\ rect = Rect_new(0, 0, Side * Scale, Side * Scale)
    /\ ring = NoRing
    /\ pc = "start"
    /\ ret = None
    /\ groups = << >>
    /\ queue = << >>
    /\ output = << >>
    /\ geom = None

\* geom.rs lines 43-45: A is not axis-aligned, intersection panics.
IntersectPanic ==
    /\ pc = "start"
    /\ ~is_ortho(side[1])
    /\ pc' = "panic"
    /\ UNCHANGED <<rect, seg, ring, ret, groups, queue, output, side, geom>>

\* geom.rs lines 47-81: A is axis-aligned, intersection returns.
Intersect ==
    /\ pc = "start"
    /\ is_ortho(side[1])
    /\ ret' = intersection(side[1], seg[1])
    /\ pc' = "isect"
    /\ UNCHANGED <<rect, seg, ring, groups, queue, output, side, geom>>

NextIntersection == IntersectPanic \/ Intersect

SpecIntersection == InitIntersection /\ [][NextIntersection]_vars

(***************************************************************************)
(* SpecInside: CoordExt::is_inside of a point (geom) and a closed chain    *)
(* (ring).                                                                 *)
(***************************************************************************)
InsideRings == { <<a, b, c, a>> : a \in RingPoints, b \in RingPoints, c \in RingPoints }
                   \cup { ls \in Quads : \A k \in 1..4 : ls[k] # ls[k + 1] }

InsidePoints == RingPoints

InitInside ==
    /\ rect \in RingRects
    /\ ring \in InsideRings
    /\ geom \in { Some([Point |-> p]) : p \in InsidePoints }
    /\ seg = None
    /\ pc = "start"
    /\ ret = None
    /\ groups = << >>
    /\ queue = << >>
    /\ output = << >>
    /\ side = None

IsInside ==
    /\ pc = "start"
    /\ ret' = Some(is_inside(geom[1].Point, ring))
    /\ pc' = "done"
    /\ UNCHANGED <<rect, seg, ring, groups, queue, output, side, geom>>

NextInside == IsInside

SpecInside == InitInside /\ [][NextInside]_vars

(***************************************************************************)
(* SpecGeometry: ClipRect::clip of a geometry of any variant.              *)
(***************************************************************************)
\* A polygon without holes around the ring ls.
Poly(ls) == [exterior |-> ls, interiors |-> << >>]

\* A hole strictly inside the rectangle of RingRects.
Hole ==
    << Coord(Scale, Scale), Coord((Side \div 2) * Scale, (Side - 1) * Scale),
       Coord((Side - 1) * Scale, Scale), Coord(Scale, Scale) >>

\* A ring around the whole rectangle.
CoverRing ==
    << Coord((0 - Margin) * Scale, (0 - Margin) * Scale),
       Coord((Side + Margin) * Scale, (0 - Margin) * Scale),
       Coord((Side + Margin) * Scale, (Side + Margin) * Scale),
       Coord((0 - Margin) * Scale, (Side + Margin) * Scale),
       Coord((0 - Margin) * Scale, (0 - Margin) * Scale) >>

GeomPoints == QuadPoints \cup { Coord(0, (Side \div 2) * Scale), Coord(0, 0) }

GeomLineStrings ==
    { ls \in { <<a, b>> : a \in QuadPoints, b \in QuadPoints } \cup
              { <<a, b, c>> : a \in QuadPoints, b \in QuadPoints, c \in QuadPoints } :
        ExactChain(ls) }

\* Line strings for the geometries of several parts: inside, across and
\* outside the rectangle.
PartLineStrings ==
    { ls \in { <<a, b>> : a \in {Coord(Scale, Scale), Coord((0 - Margin) * Scale, (0 - Margin) * Scale)},
                          b \in {Coord((Side - 1) * Scale, Scale),
                                 Coord((0 - Margin) * Scale, (Side + Margin) * Scale)} } :
        ExactChain(ls) }

GeomExteriors ==
    { ls \in Triangles : /\ \A k \in 1..3 : ls[k] \in QuadPoints
                         /\ \A k \in 1..3 : ls[k] # ls[k + 1]
                         /\ ExactChain(ls) }
    \cup { ls \in { CoverRing, Hole } : ExactChain(ls) }

GeomPolygons ==
    { [exterior |-> ls, interiors |-> hs] :
        ls \in GeomExteriors, hs \in { << >> } \cup { << h >> : h \in { c \in { Hole } : ExactChain(c) } } }

\* Polygons for the MultiPolygons: inside, across and outside the rectangle.
PartPolygons ==
  { g \in
    { Poly(Hole),
      Poly(<< Coord((0 - Margin) * Scale, (0 - Margin) * Scale),
              Coord((Side + Margin) * Scale, (0 - Margin) * Scale),
              Coord((Side \div 2) * Scale, (Side + Margin) * Scale),
              Coord((0 - Margin) * Scale, (0 - Margin) * Scale) >>),
      Poly(<< Coord((0 - Margin) * Scale, (0 - Margin) * Scale),
              Coord((Side \div 2) * Scale, (0 - Margin) * Scale),
              Coord((0 - Margin) * Scale, (Side \div 2) * Scale),
              Coord((0 - Margin) * Scale, (0 - Margin) * Scale) >>),
      Poly(<< Coord((0 - Margin) * Scale, (Side + Margin) * Scale),
              Coord((Side \div 2) * Scale, (Side + Margin) * Scale),
              Coord((Side + Margin) * Scale, (Side + Margin) * Scale),
              Coord((0 - Margin) * Scale, (Side + Margin) * Scale) >>) } :
    ExactChain(g.exterior) }

\* Sequences of at most two elements of S.
UpToTwo(S) == { << >> } \cup { <<a>> : a \in S } \cup { <<a, b>> : a \in S, b \in S }

Geometries ==
    { [Point |-> p] : p \in GeomPoints } \cup
    { [Line |-> l] : l \in { c \in { Line(a, b) : a \in QuadPoints, b \in QuadPoints } : ExactLine(c) } } \cup
    { [LineString |-> ls] : ls \in GeomLineStrings } \cup
    { [Polygon |-> g] : g \in GeomPolygons } \cup
    { [MultiPoint |-> ps] : ps \in UpToTwo(GeomPoints) } \cup
    { [MultiLineString |-> ss] : ss \in UpToTwo(PartLineStrings) } \cup
    { [MultiPolygon |-> gs] : gs \in UpToTwo(PartPolygons) } \cup
    { [GeometryCollection |-> << >>] }

InitGeometry ==
    /\ rect \in RingRects
    /\ geom \in { Some(g) : g \in Geometries }
    /\ seg = None
    /\ ring = NoRing
    /\ pc = "start"
    /\ ret = None
    /\ groups = << >>
    /\ queue = << >>
    /\ output = << >>
    /\ side = None

\* ClipRect::clip applied to the input geometry.
Clip ==
    /\ pc = "start"
    /\ geom # None
    /\ ret' = clip(rect, geom[1])
    /\ pc' = "done"
    /\ UNCHANGED <<rect, seg, ring, groups, queue, output, side, geom>>

NextGeometry == Clip

SpecGeometry == InitGeometry /\ [][NextGeometry]_vars

(***************************************************************************)
(* Claims about Rect::clip_segment, checked under SpecSegment.             *)
(***************************************************************************)
Clipped == pc = "done" /\ seg # None /\ ring = NoRing

\* C1: a segment whose two end points are inside the rectangle, boundary
\* included, is returned as Some of exactly the input segment.
C1_InsideUnchanged ==
    (Clipped /\ InClosedRect(rect, seg[1].start) /\ InClosedRect(rect, seg[1].end))
        => ret = seg

\* a segment from the boundary into the interior of a rectangle of positive
\* width and height
C1_Witness ==
    /\ Clipped
    /\ rect.x0 < rect.x1 /\ rect.y0 < rect.y1
    /\ OnBoundary(rect, seg[1].start)
    /\ InOpenRect(rect, seg[1].end)
    /\ ret = seg

\* C2: when the segment and the closed rectangle share a piece of positive
\* length, the result is Some segment whose end points are the two ends of
\* that piece.
C2_PortionInside ==
    (Clipped /\ ProperOverlap(rect, seg[1]))
        => /\ ret # None
           /\ {ret[1].start, ret[1].end} = {Entry(rect, seg[1]), Exit(rect, seg[1])}

\* The property of C2 for the rectangles of positive width and height.
PortionInsideProperRect ==
    (Clipped /\ rect.x0 < rect.x1 /\ rect.y0 < rect.y1 /\ ProperOverlap(rect, seg[1]))
        => /\ ret # None
           /\ {ret[1].start, ret[1].end} = {Entry(rect, seg[1]), Exit(rect, seg[1])}

\* C3: a segment with no point in common with the closed rectangle clips
\* to None, and clip_segments over a chain of such segments is empty.
C3_OutsideIsNone ==
    /\ (Clipped /\ Common(rect, seg[1]) = {}) => ret = None
    /\ (pc = "chain" /\ \A k \in 1..(Len(ring) - 1) : Common(rect, Edges(ring)[k]) = {})
          => groups = << >>

\* a chain of two segments outside the rectangle, the first pointing at it
C3_Witness ==
    /\ pc = "chain"
    /\ \A k \in 1..(Len(ring) - 1) : Common(rect, Edges(ring)[k]) = {}
    /\ ring[1] # ring[2]
    /\ ring[1].y = ring[2].y
    /\ rect.y0 < ring[1].y /\ ring[1].y < rect.y1
    /\ ring[1].x < ring[2].x /\ ring[2].x < rect.x0
    /\ groups = << >>

\* C4: a segment with both end points outside the rectangle whose only
\* point in common with it is one of its corners clips to None.
C4_CornerGraze ==
    (/\ Clipped
     /\ ~InClosedRect(rect, seg[1].start)
     /\ ~InClosedRect(rect, seg[1].end)
     /\ Cardinality(Common(rect, seg[1])) = 1
     /\ \A p \in Common(rect, seg[1]) : IsRectCorner(rect, p))
        => ret = None

\* a graze of a corner of a rectangle of positive width and height
C4_Witness ==
    /\ Clipped
    /\ rect.x0 < rect.x1 /\ rect.y0 < rect.y1
    /\ ~InClosedRect(rect, seg[1].start)
    /\ ~InClosedRect(rect, seg[1].end)
    /\ Cardinality(Common(rect, seg[1])) = 1
    /\ \A p \in Common(rect, seg[1]) : IsRectCorner(rect, p)
    /\ ret = None

\* C5: a segment with both end points outside the rectangle that has a
\* point strictly inside it clips to Some.
C5_CrossingIsSome ==
    (/\ Clipped
     /\ ~InClosedRect(rect, seg[1].start)
     /\ ~InClosedRect(rect, seg[1].end)
     /\ MeetsInterior(rect, seg[1]))
        => ret # None

\* a crossing that passes one grid unit or less from a corner
C5_Witness ==
    /\ Clipped
    /\ ~InClosedRect(rect, seg[1].start)
    /\ ~InClosedRect(rect, seg[1].end)
    /\ MeetsInterior(rect, seg[1])
    /\ \E c \in {rect.lines[i].start : i \in 1..4} :
           /\ Dist1(c, Entry(rect, seg[1])) <= Scale
           /\ Dist1(c, Exit(rect, seg[1])) <= Scale
    /\ ret # None

\* C6: a Some result runs in the direction of the input; with the start
\* outside and the end inside it is (I, end), with the start inside and the
\* end outside it is (start, I), I being where the segment crosses the
\* boundary.
C6_Direction ==
    (Clipped /\ ret # None)
        => /\ Dist1(seg[1].start, ret[1].start) <= Dist1(seg[1].start, ret[1].end)
           /\ (~InClosedRect(rect, seg[1].start) /\ InClosedRect(rect, seg[1].end))
                 => ret[1] = Line(Entry(rect, seg[1]), seg[1].end)
           /\ (InClosedRect(rect, seg[1].start) /\ ~InClosedRect(rect, seg[1].end))
                 => ret[1] = Line(seg[1].start, Exit(rect, seg[1]))

C6_Witness ==
    /\ Clipped
    /\ ret # None
    /\ ~InClosedRect(rect, seg[1].start)
    /\ InOpenRect(rect, seg[1].end)
    /\ seg[1].start.x > seg[1].end.x
    /\ ret[1] = Line(Entry(rect, seg[1]), seg[1].end)
    /\ ret[1].start # seg[1].start

\* C27: clip_segment never returns a segment of length zero: for an input
\* segment with distinct end points that is not contained in the
\* rectangle, a Some result has start # end.
C27_NoZeroLength ==
    (/\ Clipped
     /\ seg[1].start # seg[1].end
     /\ ~(InClosedRect(rect, seg[1].start) /\ InClosedRect(rect, seg[1].end))
     /\ ret # None)
        => ret[1].start # ret[1].end

(***************************************************************************)
(* Claims about Rect::clip_segments and ClipRect::clip_polygon_ring,       *)
(* checked under SpecRing.                                                 *)
(***************************************************************************)
\* clip_segments has run on the edges of the ring.
Grouped == pc \in {"grouped", "loop", "done"} /\ ring # NoRing

\* clip_polygon_ring has returned output.
Returned == pc = "done" /\ ring # NoRing

\* C7: every ring clip_polygon_ring returns is closed and has at least 3
\* distinct points.
C7_RingsClosedThreePoints ==
    \A k \in 1..Len(output) :
        /\ output[k][1] = output[k][Len(output[k])]
        /\ Cardinality(Points(output[k])) >= 3

\* C8: when the ring encloses the whole rectangle and no edge of it meets
\* the rectangle, clip returns Some of exactly one polygon, whose exterior
\* is the boundary of the rectangle.
C8_FullCover ==
    (/\ Returned
     /\ \A c \in RectCorners(rect) : InsideRing(ring, c)
     /\ \A k \in 1..(Len(ring) - 1) : Common(rect, Edges(ring)[k]) = {})
        => /\ ret # None
           /\ Len(ret[1].MultiPolygon) = 1
           /\ IsRectBoundary(rect, ret[1].MultiPolygon[1].exterior)

\* The ring has no point strictly inside the rectangle and meets the
\* rectangle in isolated points only, at least one.
TouchesOnly(r, ls) ==
    /\ \A k \in 1..(Len(ls) - 1) : Cardinality(Common(r, Edges(ls)[k])) <= 1
    /\ \E k \in 1..(Len(ls) - 1) : Common(r, Edges(ls)[k]) # {}

\* C9: for a ring outside the rectangle that only touches its boundary in
\* isolated points, clip_segments returns no groups and clip_polygon_ring
\* returns no rings.
C9_TouchingIsEmpty ==
    (Grouped /\ TouchesOnly(rect, ring))
        => /\ groups = << >>
           /\ Returned => output = << >>

\* Some edge of the ring passes from outside the rectangle into its interior.
CrossesBoundary(r, ls) ==
    \E k \in 1..(Len(ls) - 1) :
        /\ MeetsInterior(r, Edges(ls)[k])
        /\ ~(InClosedRect(r, ls[k]) /\ InClosedRect(r, ls[k + 1]))

\* C10: for a simple ring that crosses the boundary, the rectangle corners
\* in the output rings are the corners inside the ring: every corner the
\* ring encloses is in an output ring, and no corner outside the ring is.
C10_CornersOfIntersection ==
    (Returned /\ SimpleRing(ring) /\ CrossesBoundary(rect, ring))
        => \A c \in RectCorners(rect) :
              /\ InsideRing(ring, c) => \E k \in 1..Len(output) : c \in Points(output[k])
              /\ OutsideRing(ring, c) => \A k \in 1..Len(output) : c \notin Points(output[k])

(***************************************************************************)
(* Claims about Rect::perimeter_index, checked under SpecSegment.          *)
(***************************************************************************)
\* The length of the walk along the boundary of r from (x0, y0) to p, in
\* the order bottom, right, top, left.
WalkPos(r, p) ==
    IF p.y = r.y0 THEN p.x - r.x0
    ELSE IF p.x = r.x1 THEN (r.x1 - r.x0) + (p.y - r.y0)
    ELSE IF p.y = r.y1 THEN (r.x1 - r.x0) + (r.y1 - r.y0) + (r.x1 - p.x)
    ELSE 2 * (r.x1 - r.x0) + (r.y1 - r.y0) + (r.y1 - p.y)

\* C14: for a rectangle of positive width and height, the index of every
\* boundary point is in [0, 4), and of two boundary points the one met
\* first on the walk from (x0, y0) has the strictly smaller index.
C14_IndexMonotonic ==
    (pc = "indexed" /\ rect.x0 < rect.x1 /\ rect.y0 < rect.y1)
        => /\ OnBoundary(rect, seg[1].start)
                 => (0 <= ret[1] /\ ret[1] < 4 * PUnit(rect))
           /\ (/\ OnBoundary(rect, seg[1].start)
               /\ OnBoundary(rect, seg[1].end)
               /\ WalkPos(rect, seg[1].start) < WalkPos(rect, seg[1].end))
                 => ret[1] < ret[2]

\* a point inside the third side and a point inside the fourth, each with a
\* fractional index
C14_Witness ==
    /\ pc = "indexed"
    /\ seg[1].start.y = rect.y1 /\ rect.x0 < seg[1].start.x /\ seg[1].start.x < rect.x1
    /\ seg[1].end.x = rect.x0 /\ rect.y0 < seg[1].end.y /\ seg[1].end.y < rect.y1
    /\ ret[1] % PUnit(rect) # 0
    /\ ret[2] % PUnit(rect) # 0
    /\ ret[1] < ret[2]

(***************************************************************************)
(* Claims about Rect::corner_nodes_between, checked under SpecSegment.     *)
(***************************************************************************)
\* The length of the boundary of r.
WalkLen(r) == 2 * (r.x1 - r.x0) + 2 * (r.y1 - r.y0)

\* The length of the forward walk along the boundary of r from p to q.
WalkFrom(r, p, q) == (WalkPos(r, q) - WalkPos(r, p)) % WalkLen(r)

\* The corners in S in the order the forward walk from p meets them.
InWalkOrder(r, p, S) ==
    CHOOSE s \in [1..Cardinality(S) -> S] :
        \A i, j \in 1..Cardinality(S) : i < j => WalkFrom(r, p, s[i]) < WalkFrom(r, p, s[j])

\* The input of corner_nodes_between is the pair of indexes of two boundary
\* points (both in [0, 4)) of a rectangle of positive width and height.
CornersTaken ==
    /\ pc = "corners"
    /\ OnBoundary(rect, seg[1].start)
    /\ OnBoundary(rect, seg[1].end)

\* C21: corner_nodes_between(a, b) is, in the order of the walk, the corners
\* strictly between the boundary point at a and the boundary point at b on
\* the forward walk from a to b: never the corner at a or at b, nothing when
\* a = b, at most 4 corners.
C21_CornersStrictlyBetween ==
    CornersTaken
        => /\ output = InWalkOrder(rect, seg[1].start,
                           { c \in RectCorners(rect) :
                               /\ 0 < WalkFrom(rect, seg[1].start, c)
                               /\ WalkFrom(rect, seg[1].start, c)
                                     < WalkFrom(rect, seg[1].start, seg[1].end) })
           /\ \A k \in 1..Len(output) : output[k] \notin {seg[1].start, seg[1].end}
           /\ (ret[1] = ret[2] => output = << >>)
           /\ Len(output) <= 4

\* C21 as amended: the corners after the boundary point at a, up to and
\* including the boundary point at b when that is a corner other than the
\* point at a.
C21_CornersUpToB ==
    CornersTaken
        => /\ output = InWalkOrder(rect, seg[1].start,
                           { c \in RectCorners(rect) :
                               /\ 0 < WalkFrom(rect, seg[1].start, c)
                               /\ WalkFrom(rect, seg[1].start, c)
                                     <= WalkFrom(rect, seg[1].start, seg[1].end) })
           /\ \A k \in 1..Len(output) : output[k] # seg[1].start
           /\ (ret[1] = ret[2] => output = << >>)
           /\ Len(output) <= 4

\* b is before a and at a corner: the walk wraps, passes two corners and
\* ends on the third
C21_Witness ==
    /\ CornersTaken
    /\ ret[2] < ret[1]
    /\ ret[1] % PUnit(rect) # 0
    /\ Len(output) = 3
    /\ output[3] = seg[1].end

(***************************************************************************)
(* Claims about the groups of Rect::clip_segments, checked under SpecRing. *)
(***************************************************************************)
\* C18: no group is empty, and in every group each segment ends where the
\* next one starts.
C18_GroupsConnected ==
    Grouped =>
        \A k \in 1..Len(groups) :
            /\ Len(groups[k]) >= 1
            /\ \A i \in 1..(Len(groups[k]) - 1) : groups[k][i].end = groups[k][i + 1].start

\* two groups or more, one of them of two segments or more
C18_Witness ==
    /\ Grouped
    /\ Len(groups) >= 2
    /\ \E k \in 1..Len(groups) : Len(groups[k]) >= 2
    /\ \A k \in 1..Len(groups) :
          \A i \in 1..(Len(groups[k]) - 1) : groups[k][i].end = groups[k][i + 1].start

\* C19: a group does not end where the next group starts, nor, when there
\* are two groups or more, the last group where the first starts.
C19_GroupsMaximal ==
    Grouped =>
        /\ \A k \in 1..(Len(groups) - 1) :
               groups[k][Len(groups[k])].end # groups[k + 1][1].start
        /\ Len(groups) >= 2 =>
               groups[Len(groups)][Len(groups[Len(groups)])].end # groups[1][1].start

\* a ring that starts strictly inside the rectangle, so that its first and
\* last clipped segments are connected, clipped to two groups or more
C19_Witness ==
    /\ Grouped
    /\ InOpenRect(rect, ring[1])
    /\ Len(groups) >= 2
    /\ groups[Len(groups)][Len(groups[Len(groups)])].end # groups[1][1].start

\* The segments of the groups gs, one after the other.
RECURSIVE Flatten(_)
Flatten(gs) == IF gs = << >> THEN << >> ELSE Head(gs) \o Flatten(Tail(gs))

\* clip_segment of the k-th edge of ls and of those after it, None dropped.
RECURSIVE ClippedFrom(_, _, _)
ClippedFrom(r, ls, k) ==
    IF k >= Len(ls) THEN << >>
    ELSE clip_segment(r, Line(ls[k], ls[k + 1])) \o ClippedFrom(r, ls, k + 1)

\* v is u started at another position and wrapped around.
IsRotation(u, v) ==
    /\ Len(u) = Len(v)
    /\ \/ Len(u) = 0
       \/ \E k \in 0..(Len(u) - 1) :
             \A i \in 1..Len(u) : v[i] = u[((i - 1 + k) % Len(u)) + 1]

\* Each segment of u ends where the next starts, and the last where the
\* first starts.
CyclicallyConnected(u) ==
    \A i \in 1..Len(u) : u[i].end = u[(i % Len(u)) + 1].start

\* C20: the groups, one after the other, are a rotation of the clipped
\* segments in input order; when the clipped segments are cyclically
\* connected there is one group, the clipped segments in input order.
C20_GroupsAreRotation ==
    Grouped =>
        LET clipped == ClippedFrom(rect, ring, 1)
        IN  /\ IsRotation(clipped, Flatten(groups))
            /\ (clipped # << >> /\ CyclicallyConnected(clipped)) => groups = << clipped >>

\* three clipped segments or more, grouped from another position than the
\* first
C20_Witness ==
    /\ Grouped
    /\ Len(Flatten(groups)) >= 3
    /\ Flatten(groups) # ClippedFrom(rect, ring, 1)
    /\ IsRotation(ClippedFrom(rect, ring, 1), Flatten(groups))

(***************************************************************************)
(* Claims about the connect loop of ClipRect::clip_polygon_ring.           *)
(***************************************************************************)
\* C22: the connect loop terminates: from every state of the loop the queue
\* eventually becomes empty.  Checked under SpecRingFair.
C22_LoopTerminates == (pc = "loop") ~> (queue = << >>)

\* the loop has run on two fragments or more and has emptied the queue
C22_Witness ==
    /\ pc = "done"
    /\ ring # NoRing
    /\ Len(groups) >= 2
    /\ queue = << >>
    /\ output # << >>

\* C23: at every iteration of the connect loop the queue is sorted in
\* descending order of start index, so the fragment popped from its end has
\* the lowest start index of all fragments in the queue.  Checked under
\* SpecRing.
C23_QueueSorted ==
    (pc = "loop" /\ ring # NoRing)
        => /\ \A i, j \in 1..Len(queue) : i < j => queue[i].p >= queue[j].p
           /\ \A k \in 1..Len(queue) : queue[Len(queue)].p <= queue[k].p

\* a fragment has been closed and pushed back behind another fragment with a
\* higher start index
C23_Witness ==
    /\ pc = "loop"
    /\ ring # NoRing
    /\ Len(queue) >= 2
    /\ Len(queue[Len(queue)].ls) >= 3
    /\ is_closed(queue[Len(queue)].ls)
    /\ queue[1].p > queue[Len(queue)].p

\* The last coordinate of a chain.
Last(ls) == ls[Len(ls)]

\* ls ends with the chain b.
EndsWith(ls, b) == Len(b) <= Len(ls) /\ SubSeq(ls, Len(ls) - Len(b) + 1, Len(ls)) = b

\* ls begins with the chain a.
BeginsWith(ls, a) == Len(a) <= Len(ls) /\ SubSeq(ls, 1, Len(a)) = a

\* The step is an iteration that extends the open fragment at the end of
\* the queue with another entry: nothing is emitted and the queue gets one
\* shorter.
Extends ==
    /\ pc = "loop" /\ ring # NoRing
    /\ queue # << >>
    /\ ~is_closed(Last(queue).ls)
    /\ Len(queue') = Len(queue) - 1
    /\ output' = output

\* C24: the fragment B that an extending iteration removes and appends to A
\* is a remaining fragment whose start is met, walking forward from the
\* tail of A, before the start of A, and no remaining fragment has a start
\* with a strictly smaller forward distance from the tail.  Checked under
\* SpecRing.
C24_ClosestForward ==
    [][Extends =>
        LET a == Last(queue).ls
            rest == SubSeq(queue, 1, Len(queue) - 1)
        IN  \E k \in 1..Len(rest) :
                /\ SubSeq(queue', 1, Len(queue') - 1) = remove_at(rest, k)
                /\ BeginsWith(Last(queue').ls, a)
                /\ EndsWith(Last(queue').ls, rest[k].ls)
                /\ WalkFrom(rect, Last(a), rest[k].ls[1]) < WalkFrom(rect, Last(a), a[1])
                /\ \A h \in 1..Len(rest) :
                      WalkFrom(rect, Last(a), rest[h].ls[1])
                          >= WalkFrom(rect, Last(a), rest[k].ls[1])]_vars

\* one extension has been made, of a fragment A by a fragment B, while a
\* third fragment, further from the tail of A than B, was also met before
\* the start of A
C24_Witness ==
    /\ pc = "loop" /\ ring # NoRing
    /\ output = << >>
    /\ Len(queue) >= 2
    /\ Len(queue) = Len(groups) - 1
    /\ \E i, j \in 1..Len(groups) :
          LET a == segments_to_linestring(groups[i])
              b == segments_to_linestring(groups[j])
          IN  /\ i # j
              /\ BeginsWith(Last(queue).ls, a)
              /\ EndsWith(Last(queue).ls, b)
              /\ \E k \in 1..(Len(queue) - 1) :
                    /\ WalkFrom(rect, Last(a), b[1]) < WalkFrom(rect, Last(a), queue[k].ls[1])
                    /\ WalkFrom(rect, Last(a), queue[k].ls[1]) < WalkFrom(rect, Last(a), a[1])

\* The corners of r met on the forward walk from the boundary point p to
\* the boundary point q, the one at q included, in the order of the walk.
CornersOnWalk(r, p, q) ==
    InWalkOrder(r, p, { c \in RectCorners(r) :
                          0 < WalkFrom(r, p, c) /\ WalkFrom(r, p, c) <= WalkFrom(r, p, q) })

\* The open fragment at the end of the queue has no remaining fragment to
\* take: none starts between its tail and its own start.
NoneQualifies ==
    /\ pc = "loop" /\ ring # NoRing
    /\ queue # << >>
    /\ ~is_closed(Last(queue).ls)
    /\ \A h \in 1..(Len(queue) - 1) :
          WalkFrom(rect, Last(Last(queue).ls), queue[h].ls[1])
              >= WalkFrom(rect, Last(Last(queue).ls), Last(queue).ls[1])

\* The fragment at the end of the queue is closed.
ClosedIsNext ==
    /\ pc = "loop" /\ ring # NoRing
    /\ queue # << >>
    /\ is_closed(Last(queue).ls)

\* C25: when no remaining fragment qualifies, the iteration appends to A
\* the corners from its tail forward to its own start and then its first
\* coordinate, leaving every other fragment and the output as they are; and
\* an iteration that finds a closed fragment at the end of the queue emits
\* that fragment and touches nothing else, so the ring closed is the next
\* ring emitted.  Checked under SpecRing.
C25_ClosedThenEmitted ==
    [][/\ NoneQualifies =>
            LET a == Last(queue).ls
            IN  /\ queue' = Append(SubSeq(queue, 1, Len(queue) - 1),
                                   [p |-> Last(queue).p,
                                    ls |-> (a \o CornersOnWalk(rect, Last(a), a[1])) \o <<a[1]>>])
                /\ output' = output
                /\ is_closed(Last(queue').ls)
       /\ ClosedIsNext =>
            /\ output' = Append(output, Last(queue).ls)
            /\ queue' = SubSeq(queue, 1, Len(queue) - 1)]_vars

\* a fragment closed through two corners or more waits at the end of the
\* queue, another fragment before it, nothing emitted yet
C25_Witness ==
    /\ ClosedIsNext
    /\ output = << >>
    /\ Len(queue) >= 2
    /\ \E i \in 1..Len(groups) :
          LET a == segments_to_linestring(groups[i])
          IN  /\ ~is_closed(a)
              /\ Len(CornersOnWalk(rect, Last(a), a[1])) >= 2
              /\ Last(queue).ls = (a \o CornersOnWalk(rect, Last(a), a[1])) \o <<a[1]>>

\* The fragments that clip_segments produced, as coordinate chains.
Fragments == [k \in 1..Len(groups) |-> segments_to_linestring(groups[k])]

\* The ways to read the ring o from position pos on as fragments not in
\* used, each a contiguous run in its own order, with rectangle corners
\* between them and at most the repeated first coordinate at the end: the
\* set of the sets of fragments used when the ring has been read.
RECURSIVE ReadRing(_, _, _)
ReadRing(o, pos, used) ==
    IF pos > Len(o) THEN { used }
    ELSE UNION { ReadRing(o, pos + Len(Fragments[k]), used \cup {k}) :
                   k \in { h \in (1..Len(groups)) \ used :
                              /\ pos + Len(Fragments[h]) - 1 <= Len(o)
                              /\ SubSeq(o, pos, pos + Len(Fragments[h]) - 1) = Fragments[h] } }
         \cup (IF pos > 1 /\ IsRectCorner(rect, o[pos]) THEN ReadRing(o, pos + 1, used) ELSE {})
         \cup (IF pos > 1 /\ pos = Len(o) /\ o[pos] = o[1] THEN { used } ELSE {})

\* The same for the rings i, i + 1, ... of the output, one after the other.
RECURSIVE ReadOutput(_, _)
ReadOutput(i, used) ==
    IF i > Len(output) THEN { used }
    ELSE UNION { ReadOutput(i + 1, u) : u \in ReadRing(output[i], 1, used) }

\* C28: when clip_polygon_ring has finished, every fragment is in exactly
\* one output ring, as a contiguous run of coordinates in its own order;
\* every output coordinate belongs to a fragment, is an inserted corner of
\* the rectangle, or is the repeated first coordinate that closes its ring;
\* and every output coordinate is in the closed rectangle.  Checked under
\* SpecRing.
C28_FragmentsConserved ==
    Returned
        => /\ (1..Len(groups)) \in ReadOutput(1, {})
           /\ \A i \in 1..Len(output) : \A k \in 1..Len(output[i]) :
                 InClosedRect(rect, output[i][k])

\* three fragments or more, stitched into two rings or more, one of them
\* made of two fragments with a corner between them
C28_Witness ==
    /\ Returned
    /\ Len(groups) >= 3
    /\ Len(output) >= 2
    /\ \E i \in 1..Len(output) : \E j, k \in 1..Len(groups) :
          /\ j # k
          /\ BeginsWith(output[i], Fragments[j])
          /\ Len(output[i]) > Len(Fragments[j]) + Len(Fragments[k])
          /\ IsRectCorner(rect, output[i][Len(Fragments[j]) + 1])
          /\ ~IsRectCorner(rect, Last(Fragments[j]))
          /\ \E pos \in 1..Len(output[i]) :
                /\ pos + Len(Fragments[k]) - 1 <= Len(output[i])
                /\ SubSeq(output[i], pos, pos + Len(Fragments[k]) - 1) = Fragments[k]

(***************************************************************************)
(* Claims about CoordExt::is_inside, checked under SpecInside.             *)
(***************************************************************************)
\* C26: for a simple closed ring and a point not on it, is_inside is true
\* exactly when the ring encloses the point, whether or not the upward ray
\* from the point passes through a vertex, and for both winding directions.
C26_InsideIffEnclosed ==
    (pc = "done" /\ SimpleRing(ring) /\ ~OnRing(ring, geom[1].Point))
        => (ret = Some(TRUE)) <=> InsideRing(ring, geom[1].Point)

(***************************************************************************)
(* Claims about ClipRect::clip, checked under SpecGeometry.                *)
(***************************************************************************)
\* clip has returned for the input geometry.
ClippedGeometry == pc = "done" /\ geom # None

\* The polygons of a result, of the single or of the multi variant.
PolygonsOf(res) ==
    IF "Polygon" \in DOMAIN res THEN << res.Polygon >>
    ELSE IF "MultiPolygon" \in DOMAIN res THEN res.MultiPolygon
    ELSE << >>

\* C11: a polygon with one hole, the hole strictly inside the rectangle and
\* inside a simple exterior, clips to exactly one polygon, with exactly one
\* interior ring.
C11_HoleKept ==
    (/\ ClippedGeometry
     /\ "Polygon" \in DOMAIN geom[1]
     /\ Len(geom[1].Polygon.interiors) = 1
     /\ \A k \in 1..Len(geom[1].Polygon.interiors[1]) :
            /\ InOpenRect(rect, geom[1].Polygon.interiors[1][k])
            /\ InsideRing(geom[1].Polygon.exterior, geom[1].Polygon.interiors[1][k])
     /\ SimpleRing(geom[1].Polygon.exterior))
        => /\ ret # None
           /\ Len(PolygonsOf(ret[1])) = 1
           /\ Len(PolygonsOf(ret[1])[1].interiors) = 1

\* No point of the line string ls is in the closed rectangle.
ChainOutside(r, ls) == \A k \in 1..(Len(ls) - 1) : Common(r, Line(ls[k], ls[k + 1])) = {}

\* The polygon g and the closed rectangle have no point in common.
PolygonOutside(r, g) ==
    /\ ChainOutside(r, g.exterior)
    /\ \A c \in RectCorners(r) : ~InsideRing(g.exterior, c)

\* No part of the geometry g, of one of the seven variants, is in the
\* closed rectangle.
NothingInside(r, g) ==
    IF "Point" \in DOMAIN g THEN ~InClosedRect(r, g.Point)
    ELSE IF "Line" \in DOMAIN g THEN Common(r, g.Line) = {}
    ELSE IF "LineString" \in DOMAIN g THEN ChainOutside(r, g.LineString)
    ELSE IF "Polygon" \in DOMAIN g THEN PolygonOutside(r, g.Polygon)
    ELSE IF "MultiPoint" \in DOMAIN g
    THEN \A k \in 1..Len(g.MultiPoint) : ~InClosedRect(r, g.MultiPoint[k])
    ELSE IF "MultiLineString" \in DOMAIN g
    THEN \A k \in 1..Len(g.MultiLineString) : ChainOutside(r, g.MultiLineString[k])
    ELSE IF "MultiPolygon" \in DOMAIN g
    THEN \A k \in 1..Len(g.MultiPolygon) : PolygonOutside(r, g.MultiPolygon[k])
    ELSE FALSE

\* The result is a container with nothing in it.
EmptyContainer(res) ==
    \/ "MultiPoint" \in DOMAIN res /\ res.MultiPoint = << >>
    \/ "MultiLineString" \in DOMAIN res /\ res.MultiLineString = << >>
    \/ "MultiPolygon" \in DOMAIN res /\ res.MultiPolygon = << >>

\* C12: when no part of a geometry of the seven variants is in the
\* rectangle clip returns None, and clip never returns Some of an empty
\* container.
C12_NothingIsNone ==
    ClippedGeometry =>
        /\ NothingInside(rect, geom[1]) => ret = None
        /\ ret # None => ~EmptyContainer(ret[1])

\* C13: a result of exactly one chain is a LineString and a result of
\* exactly one polygon is a Polygon; a multi variant has two parts or more.
C13_SingleVariant ==
    (ClippedGeometry /\ ret # None)
        => /\ "MultiLineString" \in DOMAIN ret[1] => Len(ret[1].MultiLineString) # 1
           /\ "MultiPolygon" \in DOMAIN ret[1] => Len(ret[1].MultiPolygon) # 1

(***************************************************************************)
(* Claims about LineExt::intersection, checked under SpecIntersection.     *)
(***************************************************************************)
\* A has positive length and lies along an axis.
AxisAligned(l) == l.start # l.end /\ (l.start.x = l.end.x \/ l.start.y = l.end.y)

\* B has positive length and does not lie on the line that carries A.
Transversal(l, b) ==
    /\ b.start # b.end
    /\ Orient(l.start, l.end, b.start) # 0 \/ Orient(l.start, l.end, b.end) # 0

\* B starts on A, B ends on A, or B passes through an end of A.
TouchesAtEnd(l, b) ==
    \/ OnSegment(l, b.start)
    \/ OnSegment(l, b.end)
    \/ OnSegment(b, l.start)
    \/ OnSegment(b, l.end)

\* C15: for an axis-aligned A, when the point where B meets A is an end
\* point of A or of B, intersection(A, B) is None.
C15_TouchIsNone ==
    (/\ pc = "isect"
     /\ AxisAligned(side[1])
     /\ Transversal(side[1], seg[1])
     /\ TouchesAtEnd(side[1], seg[1]))
        => ret = None

\* C16: intersection panics when A is neither horizontal nor vertical, for
\* every B, and never panics when A is horizontal or vertical.
C16_PanicIffNotAxisAligned ==
    /\ pc = "panic" => (side[1].start.x # side[1].end.x /\ side[1].start.y # side[1].end.y)
    /\ pc = "isect" => (side[1].start.x = side[1].end.x \/ side[1].start.y = side[1].end.y)
    /\ pc = "panic" => ret = None

\* a diagonal A met by a B that crosses it has paniced
C16_Witness ==
    /\ pc = "panic"
    /\ side[1].start.x # side[1].end.x /\ side[1].start.y # side[1].end.y
    /\ SegmentsMeet(side[1], seg[1])
    /\ ~TouchesAtEnd(side[1], seg[1])

\* C17: for an axis-aligned A, intersection(A, B) = intersection(A, reverse(B)).
C17_DirectionOfB ==
    (pc = "isect" /\ AxisAligned(side[1]))
        => ret = intersection(side[1], reverse(seg[1]))

====
